---- MODULE Spec2Model ----
(***************************************************************************)
(* A model of CPAC/utils/trimmer.py: the_trimmer prunes a workflow's       *)
(* execution graph against the files its DataSink nodes already wrote.     *)
(*                                                                         *)
(* The graph is a networkx DiGraph as the code uses it (the 1.x API:       *)
(* G.edge, successors() returning a list): a set of nodes and at most one  *)
(* edge per ordered pair, each edge carrying a 'connect' list of           *)
(* (source field, destination field) pairs.                                *)
(***************************************************************************)
EXTENDS Integers, Sequences, FiniteSets, TLC

\* ---------------------------------------------------------------- bounds
\* Number of nodes of the caller's workflow.
NumNodes == 3
\* Total number of field connections of the caller's workflow.
MaxConnect == 3

\* ---------------------------------------------------------------- inputs
OrigNodes == 1..NumNodes
OutFields == {"f", "g"}
InFields == {"a", "b"}

\* type(n).__name__ and type(n.interface).__name__ of a node.
NodeKinds ==
  { [type |-> "Node", interface |-> "Function"],
    [type |-> "Node", interface |-> "DataSink"],
    [type |-> "MapNode", interface |-> "Function"],
    [type |-> "MapNode", interface |-> "DataSink"] }

\* What a listing of a location can be: len(files) = 0, = 1, > 1, or the
\* backend raising instead of returning.
Listings == {"zero", "one", "many", "fault"}

\* One field connection of the workflow: src.of -> dst.if
AllConnections ==
  { c \in OrigNodes \X OutFields \X OrigNodes \X InFields : c[1] < c[3] }

RECURSIVE SubsetsUpTo(_, _)
SubsetsUpTo(S, k) ==
  IF k = 0 \/ S = {} THEN {{}}
  ELSE LET x == CHOOSE y \in S : TRUE
           rest == S \ {x}
       IN  SubsetsUpTo(rest, k) \cup { T \cup {x} : T \in SubsetsUpTo(rest, k - 1) }

\* An input field of a node is fed by at most one connection.
WellConnected(C) ==
  \A c \in C, d \in C : (c[3] = d[3] /\ c[4] = d[4]) => c = d

\* Output field names are labels local to a node: up to renaming, the first
\* connection a node feeds (by destination) uses its field "f".
FieldsInOrder(C) ==
  \A c \in C : c[2] = "g" =>
    \E d \in C : /\ d[1] = c[1] /\ d[2] = "f"
                 /\ \/ d[3] < c[3]
                    \/ d[3] = c[3] /\ d[4] = "a" /\ c[4] = "b"

\* The 'connect' list of the edge (u, v): its connections, in the order of
\* the destination fields.
RECURSIVE ConnectList(_)
ConnectList(P) ==
  IF P = {} THEN <<>>
  ELSE LET p == CHOOSE q \in P : q[2] = "a" \/ \A r \in P : r[2] # "a"
       IN  <<p>> \o ConnectList(P \ {p})

\* The flat graph of a workflow with connections C.
FlatGraph(C) ==
  [ nodes |-> OrigNodes,
    edge  |-> [ e \in { <<c[1], c[3]>> : c \in C } |->
                ConnectList({ <<c[2], c[4]>> : c \in { d \in C : d[1] = e[1] /\ d[3] = e[2] } }) ] ]

\* ------------------------------------------------- the graph (networkx)
EmptyMap == [ x \in {} |-> 0 ]

in_edges(G, n) == { e \in DOMAIN G.edge : e[2] = n }
out_edges(G, n) == { e \in DOMAIN G.edge : e[1] = n }
successors(G, n) == { e[2] : e \in out_edges(G, n) }
has_node(G, n) == n \in G.nodes

\* remove_node drops the node and every edge at it (the caller checks
\* has_node: networkx raises NetworkXError for a node that is not there).
remove_node(G, n) ==
  [ nodes |-> G.nodes \ {n},
    edge  |-> [ e \in { d \in DOMAIN G.edge : d[1] # n /\ d[2] # n } |-> G.edge[e] ] ]

add_node(G, n) == [ G EXCEPT !.nodes = @ \cup {n} ]

\* add_edge on a pair that already has an edge replaces its attributes.
add_edge(G, u, v, connect) ==
  [ nodes |-> G.nodes \cup {u, v},
    edge  |-> [ e \in DOMAIN G.edge \cup {<<u, v>>} |->
                IF e = <<u, v>> THEN connect ELSE G.edge[e] ] ]

\* The set of the elements of a list.
Range(s) == { s[i] : i \in DOMAIN s }

\* Every ordering of a finite set, as lists.
RECURSIVE Orderings(_)
Orderings(S) ==
  IF S = {} THEN {<<>>}
  ELSE UNION { { <<x>> \o t : t \in Orderings(S \ {x}) } : x \in S }

\* A set of nodes as a list, in node order (the order the model visits the
\* entries of an adjacency dict in).
RECURSIVE InNodeOrder(_)
InNodeOrder(S) ==
  IF S = {} THEN <<>>
  ELSE LET m == CHOOSE x \in S : \A y \in S : x <= y
       IN  <<m>> \o InNodeOrder(S \ {m})

\* ------------------------------------------------------------- the state
VARIABLES
  pc,                  \* where the_trimmer is: call, scan, validate, prune,
                       \* delete, replace, collect, return, done, failed
  kind,                \* the type and interface of each workflow node
  heap,                \* the graph objects, by reference
  execgraph,           \* the reference the local 'execgraph' holds
  storage,             \* what the locations probed so far hold
  replacements,        \* producer -> (output field -> cached file)
  deletions,           \* the list of nodes to delete
  scanned,             \* the datasinks the scan loop is done with
  replaced,            \* the producers the rewrite loop is done with
  replacement_mapping, \* producer -> (output field -> input node)
  input_nodes,         \* _input_nodes, the input nodes created
  file_path,           \* input node -> the file it reads
  wf_new,              \* the reference of the returned workflow's graph
  error                \* the exception the call ended with

vars == << pc, kind, heap, execgraph, storage, replacements, deletions, scanned,
           replaced, replacement_mapping, input_nodes, file_path, wf_new, error >>

\* The reference of the caller's workflow graph.
WfRef == "wf"

\* No copy: the same object under the same reference.
deepcopy_alias(ref) == ref

\* deepcopy: the copy is a new object.
deepcopy(ref) == "execgraph"

\* The graph the local 'execgraph' refers to.
G == heap[execgraph]

\* The datasinks the scan visits.
IsDataSink(n) == kind[n].type = "Node" /\ kind[n].interface = "DataSink"
execnodes(graph) == { n \in graph.nodes : IsDataSink(n) }

\* The location a datasink writes a derivative to. base_directory and
\* container are the same for every datasink and the workflow has no
\* iterables, so the derivative's name tells the locations apart.
ResolvePath(datasink, derivative_name) == derivative_name

\* The node create_check_for_s3_node makes for '<replacement>_<field>_input'.
InputNode(replacement, from_field) ==
  10 * replacement + (IF from_field = "f" THEN 1 ELSE 2)

\* The state at the call, for a workflow whose nodes have the kinds allowed.
Start(kinds) ==
  /\ pc = "call"
  /\ kind \in [OrigNodes -> kinds]
  /\ \E C \in SubsetsUpTo(AllConnections, MaxConnect) :
       /\ WellConnected(C)
       /\ FieldsInOrder(C)
       /\ heap = [ r \in {WfRef} |-> FlatGraph(C) ]
  /\ execgraph = "None"
  /\ storage = EmptyMap
  /\ replacements = EmptyMap
  /\ deletions = <<>>
  /\ scanned = {}
  /\ replaced = {}
  /\ replacement_mapping = EmptyMap
  /\ input_nodes = <<>>
  /\ file_path = EmptyMap
  /\ wf_new = "None"
  /\ error = "None"

\* Workflows of plain nodes: computing nodes and datasinks.
Init == Start({ k \in NodeKinds : k.type = "Node" })

\* Workflows that may hold MapNodes too.
InitMapNodes == Start(NodeKinds)

\* Lines 129-138: copy the workflow's graph and list its datasinks.
Call ==
  /\ pc = "call"
  /\ LET ref == deepcopy(WfRef)
     IN  /\ heap' = [ r \in DOMAIN heap \cup {ref} |-> IF r = ref THEN heap[WfRef] ELSE heap[r] ]
         /\ execgraph' = ref
         /\ pc' = IF execnodes(heap[WfRef]) = {} THEN "validate" ELSE "scan"
  /\ UNCHANGED << kind, storage, replacements, deletions, scanned, replaced,
                  replacement_mapping, input_nodes, file_path, wf_new, error >>

\* dict.get(key, {})
Get(map, key) == IF key \in DOMAIN map THEN map[key] ELSE EmptyMap

\* Line 168: a listing counts when it holds exactly one file.
IsSingleFile(files) == files = "one"

\* A listing that never raises: a fault reads as a location without a
\* single file.
RaisesNever(files) == FALSE

\* Lines 20-24: the listing of an object-storage location raises when the
\* bucket cannot be reached.
Raises(files) == files = "fault"

\* files[0] of the listing of a location that holds one file.
FirstFile(path) == path

\* Lines 147-172 for one incoming edge: the cached fields of its source
\* after the edge's connections have been probed, in the list's order.
RECURSIVE ScanConnect(_, _, _, _)
ScanConnect(cached, connect, datasink, listing) ==
  IF connect = <<>> THEN cached
  ELSE LET src_field == Head(connect)[1]
           path == ResolvePath(datasink, Head(connect)[2])
           next == IF IsSingleFile(listing[path])
                   THEN [ fld \in DOMAIN cached \cup {src_field} |->
                          IF fld = src_field THEN FirstFile(path) ELSE cached[fld] ]
                   ELSE cached
       IN  ScanConnect(next, Tail(connect), datasink, listing)

\* Lines 142-172: replacements after every incoming edge of the datasink
\* has been probed.
ScanInEdges(repl, graph, datasink, listing) ==
  LET cachedOf(src) ==
        ScanConnect(Get(repl, src), graph.edge[<<src, datasink>>], datasink, listing)
      srcs == { e[1] : e \in in_edges(graph, datasink) }
      keys == DOMAIN repl \cup { src \in srcs : cachedOf(src) # EmptyMap }
  IN  [ n \in keys |-> IF n \in srcs THEN cachedOf(n) ELSE repl[n] ]

\* Lines 176-182: the test that lets a datasink be deleted.
DatasinkCovered(repl, graph, datasink) ==
  \A e \in in_edges(graph, datasink) :
    \E c \in Range(graph.edge[e]) : c[1] \in DOMAIN Get(repl, e[1])

\* The locations the scan of a datasink lists.
ProbedPaths(graph, datasink) ==
  { ResolvePath(datasink, c[2]) :
      c \in UNION { Range(graph.edge[e]) : e \in in_edges(graph, datasink) } }

\* Where the scan loop goes after a datasink.
AfterScan(done) == IF execnodes(G) \subseteq done THEN "validate" ELSE "scan"

\* Lines 139-183, one datasink: probe every incoming field connection,
\* record the single files found, decide whether the datasink goes. A
\* listing that raises ends the call.
ScanDatasink(datasink) ==
  /\ pc = "scan"
  /\ datasink \in execnodes(G) \ scanned
  /\ \E listing \in [ ProbedPaths(G, datasink) -> Listings ] :
       /\ \A p \in DOMAIN listing \cap DOMAIN storage : listing[p] = storage[p]
       /\ storage' = [ p \in DOMAIN storage \cup DOMAIN listing |->
                       IF p \in DOMAIN storage THEN storage[p] ELSE listing[p] ]
       /\ IF \E p \in DOMAIN listing : Raises(listing[p])
          THEN /\ pc' = "failed"
               /\ error' = "StorageFault"
               /\ UNCHANGED << replacements, deletions, scanned >>
          ELSE LET repl == ScanInEdges(replacements, G, datasink, listing)
               IN  /\ replacements' = repl
                   /\ deletions' = IF DatasinkCovered(repl, G, datasink)
                                   THEN Append(deletions, datasink)
                                   ELSE deletions
                   /\ scanned' = scanned \cup {datasink}
                   /\ pc' = AfterScan(scanned \cup {datasink})
                   /\ UNCHANGED error
  /\ UNCHANGED << kind, heap, execgraph, replaced, replacement_mapping,
                  input_nodes, file_path, wf_new >>

\* Lines 186-193: the producers with a connected output field that no
\* file was found for.
Uncovered(repl, graph) ==
  { n \in DOMAIN repl :
      \E e \in out_edges(graph, n) :
        \E c \in Range(graph.edge[e]) : c[1] \notin DOMAIN repl[n] }

\* Lines 186-193: drop the producers that are not wholly cached. The loop
\* deletes from the dict it iterates: where items() is a list the loop
\* sees every entry; where it is a view the step after the first deletion
\* raises RuntimeError.
Validate ==
  /\ pc = "validate"
  /\ LET bad == Uncovered(replacements, G)
     IN  \/ /\ replacements' = [ n \in DOMAIN replacements \ bad |-> replacements[n] ]
            /\ pc' = "prune"
            /\ UNCHANGED error
         \/ \E n \in bad :
              /\ replacements' = [ m \in DOMAIN replacements \ {n} |-> replacements[m] ]
              /\ pc' = "failed"
              /\ error' = "RuntimeError"
  /\ UNCHANGED << kind, heap, execgraph, storage, deletions, scanned, replaced,
                  replacement_mapping, input_nodes, file_path, wf_new >>

\* Lines 195-208: the predecessors of a cached node that feed nothing but
\* it, each followed by its own such predecessors, in the order yielded.
RECURSIVE recurse_predecessors(_, _)
RECURSIVE VisitPredecessors(_, _, _)

\* The walk without the test of line 201: every predecessor is yielded.
VisitPredecessorsAll(graph, cached_node, preds) ==
  IF preds = <<>> THEN <<>>
  ELSE <<Head(preds)>> \o recurse_predecessors(graph, Head(preds))
         \o VisitPredecessors(graph, cached_node, Tail(preds))

VisitPredecessors(graph, cached_node, preds) ==
  IF preds = <<>> THEN <<>>
  ELSE LET node == Head(preds)
           yielded == IF \E e \in out_edges(graph, node) : e[2] # cached_node
                      THEN <<>>
                      ELSE <<node>> \o recurse_predecessors(graph, node)
       IN  yielded \o VisitPredecessors(graph, cached_node, Tail(preds))

recurse_predecessors(graph, cached_node) ==
  VisitPredecessors(graph, cached_node,
                    InNodeOrder({ e[1] : e \in in_edges(graph, cached_node) }))

\* Lines 212-213 for the producers in the order given.
RECURSIVE PrunedFor(_, _)
PrunedFor(graph, order) ==
  IF order = <<>> THEN <<>>
  ELSE recurse_predecessors(graph, Head(order)) \o PrunedFor(graph, Tail(order))

\* Lines 212-213: add the dead predecessors of every replaced producer to
\* the deletions; the dict's order decides the order of the list.
Prune ==
  /\ pc = "prune"
  /\ \E order \in Orderings(DOMAIN replacements) :
       deletions' = deletions \o PrunedFor(G, order)
  /\ pc' = "delete"
  /\ UNCHANGED << kind, heap, execgraph, storage, replacements, scanned, replaced,
                  replacement_mapping, input_nodes, file_path, wf_new, error >>

\* Lines 216-217: remove the nodes of a list in order; removing a node the
\* graph does not have raises.
RECURSIVE RemoveAll(_, _)
RemoveAll(graph, list) ==
  IF list = <<>> THEN [ graph |-> graph, raised |-> FALSE ]
  ELSE IF ~has_node(graph, Head(list)) THEN [ graph |-> graph, raised |-> TRUE ]
  ELSE RemoveAll(remove_node(graph, Head(list)), Tail(list))

\* Where the rewrite loop goes after a producer.
AfterReplace(done) == IF DOMAIN replacements \subseteq done THEN "collect" ELSE "replace"

\* Lines 216-217: delete the nodes of the deletions list.
Delete ==
  /\ pc = "delete"
  /\ LET r == RemoveAll(G, deletions)
     IN  /\ heap' = [ heap EXCEPT ![execgraph] = r.graph ]
         /\ pc' = IF r.raised THEN "failed" ELSE AfterReplace({})
         /\ error' = IF r.raised THEN "NetworkXError" ELSE error
  /\ UNCHANGED << kind, execgraph, storage, replacements, deletions, scanned, replaced,
                  replacement_mapping, input_nodes, file_path, wf_new >>

\* Lines 230-256 for one outgoing edge: make the input node of each source
\* field not seen yet and connect it to the consumer. st holds the graph,
\* the producer's entry of replacement_mapping, _input_nodes and the files.
RECURSIVE RewireConnect(_, _, _, _, _)
RewireConnect(st, replacement, cached_files, to_node, connect) ==
  IF connect = <<>> THEN st
  ELSE LET from_field == Head(connect)[1]
           to_field == Head(connect)[2]
           fresh == from_field \notin DOMAIN st.mapping
           new_node == InputNode(replacement, from_field)
           mapping == IF fresh
                      THEN [ fld \in DOMAIN st.mapping \cup {from_field} |->
                             IF fld = from_field THEN new_node ELSE st.mapping[fld] ]
                      ELSE st.mapping
           g1 == IF fresh THEN add_node(st.graph, new_node) ELSE st.graph
           g2 == add_edge(g1, mapping[from_field], to_node, << <<"file", to_field>> >>)
       IN  RewireConnect(
             [ graph   |-> g2,
               mapping |-> mapping,
               inputs  |-> IF fresh THEN Append(st.inputs, new_node) ELSE st.inputs,
               files   |-> IF fresh
                           THEN [ n \in DOMAIN st.files \cup {new_node} |->
                                  IF n = new_node THEN cached_files[from_field] ELSE st.files[n] ]
                           ELSE st.files ],
             replacement, cached_files, to_node, Tail(connect))

\* Lines 228-256: every consumer of the producer, in node order.
RECURSIVE RewireConsumers(_, _, _, _, _)
RewireConsumers(st, replacement, cached_files, out_edges_data, to_nodes) ==
  IF to_nodes = <<>> THEN st
  ELSE RewireConsumers(
         RewireConnect(st, replacement, cached_files, Head(to_nodes),
                       out_edges_data[<<replacement, Head(to_nodes)>>]),
         replacement, cached_files, out_edges_data, Tail(to_nodes))

\* Lines 224-258 for one producer that is in the graph: its consumers are
\* fed by input nodes and it is removed. st holds the graph,
\* replacement_mapping, _input_nodes and the files of the input nodes.
RewriteStep(st, replacement) ==
  LET sub == RewireConsumers(
               [ graph |-> st.graph, mapping |-> EmptyMap,
                 inputs |-> st.inputs, files |-> st.files ],
               replacement, replacements[replacement], st.graph.edge,
               InNodeOrder(successors(st.graph, replacement)))
  IN  [ graph   |-> remove_node(sub.graph, replacement),
        mapping |-> IF sub.mapping = EmptyMap THEN st.mapping
                    ELSE [ n \in DOMAIN st.mapping \cup {replacement} |->
                           IF n = replacement THEN sub.mapping ELSE st.mapping[n] ],
        inputs  |-> sub.inputs,
        files   |-> sub.files ]

\* Lines 222-258, one producer: put input nodes in its place and remove
\* it. Asking for the successors of a node the graph does not have raises.
ReplaceProducer(replacement) ==
  /\ pc = "replace"
  /\ replacement \in DOMAIN replacements \ replaced
  /\ IF ~has_node(G, replacement)
     THEN /\ pc' = "failed"
          /\ error' = "NetworkXError"
          /\ UNCHANGED << heap, replaced, replacement_mapping, input_nodes, file_path >>
     ELSE LET st == RewriteStep(
                      [ graph |-> G, mapping |-> replacement_mapping,
                        inputs |-> input_nodes, files |-> file_path ],
                      replacement)
          IN  /\ heap' = [ heap EXCEPT ![execgraph] = st.graph ]
              /\ replacement_mapping' = st.mapping
              /\ input_nodes' = st.inputs
              /\ file_path' = st.files
              /\ replaced' = replaced \cup {replacement}
              /\ pc' = AfterReplace(replaced \cup {replacement})
              /\ UNCHANGED error
  /\ UNCHANGED << kind, execgraph, storage, replacements, deletions, scanned, wf_new >>

\* Lines 261-264: remove the input nodes nothing reads from.
RECURSIVE RemoveUnused(_, _)
RemoveUnused(graph, nodes) ==
  IF nodes = <<>> THEN graph
  ELSE RemoveUnused(IF successors(graph, Head(nodes)) = {}
                    THEN remove_node(graph, Head(nodes))
                    ELSE graph,
                    Tail(nodes))

Collect ==
  /\ pc = "collect"
  /\ heap' = [ heap EXCEPT ![execgraph] = RemoveUnused(G, input_nodes) ]
  /\ pc' = "return"
  /\ UNCHANGED << kind, execgraph, storage, replacements, deletions, scanned, replaced,
                  replacement_mapping, input_nodes, file_path, wf_new, error >>

\* Lines 266-269: the clone of the workflow takes the pruned graph.
Return ==
  /\ pc = "return"
  /\ wf_new' = execgraph
  /\ pc' = "done"
  /\ UNCHANGED << kind, heap, execgraph, storage, replacements, deletions, scanned,
                  replaced, replacement_mapping, input_nodes, file_path, error >>

Next ==
  \/ Call
  \/ \E d \in OrigNodes : ScanDatasink(d)
  \/ Validate
  \/ Prune
  \/ Delete
  \/ \E r \in OrigNodes : ReplaceProducer(r)
  \/ Collect
  \/ Return

Spec == Init /\ [][Next]_vars

SpecMapNodes == InitMapNodes /\ [][Next]_vars

\* ------------------------------------------------------------ the claims
\* The caller's graph, and the graph of the workflow returned.
W == heap[WfRef]
Returned == pc = "done"
Pruned == heap[wf_new]

\* The scan loop has ended without a storage fault.
ScanEnded == pc \notin {"call", "scan"} /\ error # "StorageFault"

\* The location of a connection into a datasink holds exactly one file.
SingleAt(datasink, derivative_name) ==
  /\ ResolvePath(datasink, derivative_name) \in DOMAIN storage
  /\ storage[ResolvePath(datasink, derivative_name)] = "one"

\* The field connections of a graph, as (src, field, dst, field).
ConnOf(graph) ==
  UNION { { <<e[1], graph.edge[e][i][1], e[2], graph.edge[e][i][2]>> :
              i \in DOMAIN graph.edge[e] } : e \in DOMAIN graph.edge }

\* C1. No-op property: when no probe found exactly one file, the graph
\* returned is the input graph, nothing is deleted and nothing is replaced,
\* whatever the shape of the graph.
C1_NoOp ==
  (Returned /\ \A p \in DOMAIN storage : storage[p] \in {"zero", "many"})
    => /\ Pruned = W
       /\ deletions = <<>>
       /\ replacement_mapping = EmptyMap

\* A file was found for the output field of a producer: the field feeds a
\* datasink at a location that holds exactly one file.
HasCandidate(n, fld) ==
  \E c \in ConnOf(W) :
    c[1] = n /\ c[2] = fld /\ IsDataSink(c[3]) /\ SingleAt(c[3], c[4])

\* A producer of the raw candidate map with a connected output field that
\* has no candidate.
PartlyCached(n) ==
  /\ \E fld \in OutFields : HasCandidate(n, fld)
  /\ \E c \in ConnOf(W) : c[1] = n /\ ~HasCandidate(n, c[2])

\* C2. Partial-output non-pruning: every producer of the raw candidate map
\* with an outgoing field that has no candidate is dropped by the
\* validation (which ends normally, having seen every entry), is not put in
\* the deletions, and is in the pruned graph with its edges to the
\* consumers that remain.
C2_PartialKept ==
  \A n \in OrigNodes :
    (ScanEnded /\ PartlyCached(n)) =>
      /\ error # "RuntimeError"
      /\ pc # "validate" => n \notin DOMAIN replacements
      /\ n \notin Range(deletions)
      /\ Returned =>
           /\ n \in Pruned.nodes
           /\ \A e \in out_edges(W, n) :
                e[2] \in Pruned.nodes =>
                  e \in DOMAIN Pruned.edge /\ Pruned.edge[e] = W.edge[e]

\* C3. A datasink is in the deletions only if every one of its incoming
\* field connections resolved to exactly one file; a datasink with an
\* incoming connection whose location held no file or several is in the
\* pruned graph.
C3_SinkDeletedOnlyIfAllCached ==
  \A d \in OrigNodes :
    (IsDataSink(d) /\ ScanEnded) =>
      LET allSingle == \A c \in ConnOf(W) : c[3] = d => SingleAt(d, c[4])
      IN  /\ d \in Range(deletions) => allSingle
          /\ (Returned /\ ~allSingle) => d \in Pruned.nodes

\* Every path downstream of the node ends in a datasink.
RECURSIVE Drains(_)
Drains(n) ==
  IF successors(W, n) = {} THEN IsDataSink(n)
  ELSE \A s \in successors(W, n) : Drains(s)

\* Every datasink found exactly one file for each incoming connection.
FullCache ==
  \A c \in ConnOf(W) : IsDataSink(c[3]) => SingleAt(c[3], c[4])

\* C4. Full-cache property: when every datasink is wholly cached, no node
\* whose downstream paths all end in datasinks is left in the pruned graph,
\* and no input node without a consumer is left.
C4_FullCache ==
  (Returned /\ FullCache) =>
    /\ \A n \in OrigNodes : Drains(n) => n \notin Pruned.nodes
    /\ \A n \in Pruned.nodes \ OrigNodes : successors(Pruned, n) # {}

\* The node keeps, in the pruned graph, its edges to the consumers that
\* are still there.
KeepsLiveEdges(n) ==
  /\ n \in Pruned.nodes
  /\ \A s \in successors(W, n) \cap Pruned.nodes :
       <<n, s>> \in DOMAIN Pruned.edge /\ Pruned.edge[<<n, s>>] = W.edge[<<n, s>>]

\* A node that is not a datasink is deleted by the backward pruning only
\* if every consumer it had is gone from the pruned graph.
PrunedOnlyIfDead(n) ==
  n \in Range(deletions) => successors(W, n) \cap Pruned.nodes = {}

\* C5, as claimed. Fan-in independence: a node that is not a datasink is
\* pruned only if all its consumers are removed, and any such node with a
\* consumer left in the pruned graph is retained with its edges to them.
C5_AnyNodeWithLiveConsumerKept ==
  Returned =>
    \A n \in OrigNodes : ~IsDataSink(n) =>
      /\ PrunedOnlyIfDead(n)
      /\ successors(W, n) \cap Pruned.nodes # {} => KeepsLiveEdges(n)

\* C5, amended. Fan-in independence: a node that is not a datasink is
\* pruned only if all its consumers are removed, and such a node that is
\* not a validated replaced producer and has a consumer left in the pruned
\* graph is retained with its edges to them.
C5_FanInIndependence ==
  Returned =>
    \A n \in OrigNodes : ~IsDataSink(n) =>
      /\ PrunedOnlyIfDead(n)
      /\ (n \notin DOMAIN replacements /\ successors(W, n) \cap Pruned.nodes # {})
           => KeepsLiveEdges(n)

\* C5: a node is kept for a consumer that stays although another consumer
\* of it was replaced by an input node and removed.
C5_Witness ==
  /\ Returned
  /\ \E n \in OrigNodes \ DOMAIN replacements :
       /\ ~IsDataSink(n)
       /\ n \in Pruned.nodes
       /\ successors(W, n) \cap Pruned.nodes # {}
       /\ successors(W, n) \cap DOMAIN replacements # {}

\* C6. The deletions name every removed node: a node of the input graph is
\* missing from the pruned graph exactly if it is in the deletions.
C6_DeletionsNameRemoved ==
  Returned =>
    \A n \in OrigNodes : n \notin Pruned.nodes <=> n \in Range(deletions)

\* C7. A MapNode is never entered in the replacement map, never replaced by
\* an input node, never put in the deletions, and is in the pruned graph.
C7_MapNodesUntouched ==
  \A n \in OrigNodes :
    kind[n].type = "MapNode" =>
      /\ n \notin DOMAIN replacements
      /\ n \notin DOMAIN replacement_mapping
      /\ n \notin Range(deletions)
      /\ Returned => n \in Pruned.nodes

\* C8. The pruned graph is consistent and no node is removed twice: every
\* edge joins two nodes of the graph, no removal meets a node that is gone,
\* the deletions hold no node twice and none that the rewrite then
\* processes as a replaced producer.
C8_NoDoubleRemoval ==
  /\ error # "NetworkXError"
  /\ Returned => \A e \in DOMAIN Pruned.edge : e[1] \in Pruned.nodes /\ e[2] \in Pruned.nodes
  /\ \A i \in DOMAIN deletions, j \in DOMAIN deletions : deletions[i] = deletions[j] => i = j
  /\ pc \in {"delete", "replace", "collect", "return", "done"}
       => Range(deletions) \cap DOMAIN replacements = {}

\* C9. The caller's graph is never changed by a step of the_trimmer.
C9_InputNotMutated == [][heap'[WfRef] = heap[WfRef]]_vars

\* C9: a call has returned a graph that differs from the caller's.
C9_Witness == Returned /\ Pruned # W

\* C10. A listing that raises ends the call with the fault: nothing is
\* returned and the graph is still the copy of the input graph.
C10_FaultIsFatal ==
  (\E p \in DOMAIN storage : storage[p] = "fault") =>
    /\ pc = "failed"
    /\ error = "StorageFault"
    /\ wf_new = "None"
    /\ G = W
    /\ replacement_mapping = EmptyMap

\* C10: the fault came after an earlier datasink was found cached and
\* marked for deletion.
C10_Witness ==
  /\ pc = "failed"
  /\ error = "StorageFault"
  /\ deletions # <<>>
  /\ replacements # EmptyMap

\* The backward pruning has run.
PruneEnded == pc \in {"delete", "replace", "collect", "return", "done"}

\* The nodes marked for removal: the deletions and the validated producers.
Marked == Range(deletions) \cup DOMAIN replacements

\* The node is upstream of a validated replaced producer.
RECURSIVE Upstream(_)
Upstream(n) ==
  \E s \in successors(W, n) : s \in DOMAIN replacements \/ Upstream(s)

\* C11. Backward pruning is a transitive closure: every node upstream of
\* a validated replaced producer whose outgoing edges all target nodes
\* marked for removal is in the deletions, also when its consumers are two
\* or more different removed nodes.
C11_PruningIsClosure ==
  PruneEnded =>
    \A n \in OrigNodes :
      ( /\ n \notin DOMAIN replacements
        /\ Upstream(n)
        /\ successors(W, n) \subseteq Marked )
        => n \in Range(deletions)

\* The input node the rewrite made for an output field of a producer.
StandIn(producer, from_field) == replacement_mapping[producer][from_field]

\* The consumer's input field is fed, in the pruned graph, by the input
\* node of the producer's output field.
Rewired(producer, from_field, consumer, to_field) ==
  /\ producer \in DOMAIN replacement_mapping
  /\ from_field \in DOMAIN replacement_mapping[producer]
  /\ <<StandIn(producer, from_field), consumer>> \in DOMAIN Pruned.edge
  /\ <<"file", to_field>> \in Range(Pruned.edge[<<StandIn(producer, from_field), consumer>>])

\* C12. Rewiring preserves every consumer input: for each validated
\* producer, each consumer left in the pruned graph and each connection
\* (f_out, f_in) between them, the input node of (producer, f_out) feeds
\* (file, f_in) to the consumer, also when several connections of one edge
\* share f_out; there is one input node per (producer, f_out).
C12_RewiringKeepsInputs ==
  Returned =>
    /\ \A c \in ConnOf(W) :
         (c[1] \in DOMAIN replacements /\ c[3] \in Pruned.nodes)
           => Rewired(c[1], c[2], c[3], c[4])
    /\ \A i \in DOMAIN input_nodes, j \in DOMAIN input_nodes :
         input_nodes[i] = input_nodes[j] => i = j

\* Lines 139-183 for the datasinks in the order given, over the storage as
\* probed: the raw candidate map and the datasinks deleted.
RECURSIVE ScanInOrder(_, _, _)
ScanInOrder(repl, deleted, order) ==
  IF order = <<>> THEN [ replacements |-> repl, deleted |-> deleted ]
  ELSE LET next == ScanInEdges(repl, W, Head(order), storage)
       IN  ScanInOrder(next,
                       IF DatasinkCovered(next, W, Head(order))
                       THEN deleted \cup {Head(order)} ELSE deleted,
                       Tail(order))

\* The scan loop has just ended.
ScanJustEnded == pc = "validate"

\* C13. The outcome of the scan does not depend on the order the datasinks
\* are scanned in: every order gives the raw candidate map and the set of
\* deleted datasinks that this run has.
C13_ScanOrderIndependent ==
  ScanJustEnded =>
    \A order \in Orderings(execnodes(W)) :
      LET other == ScanInOrder(EmptyMap, {}, order)
      IN  /\ other.replacements = replacements
          /\ other.deleted = Range(deletions)

\* Lines 222-264 for the producers in the order given, from the graph left
\* by the deletions: the pruned graph and replacement_mapping.
RECURSIVE RewriteInOrder(_, _)
RewriteInOrder(st, order) ==
  IF order = <<>>
  THEN [ graph |-> RemoveUnused(st.graph, st.inputs), mapping |-> st.mapping ]
  ELSE RewriteInOrder(RewriteStep(st, Head(order)), Tail(order))

\* The state the rewrite loop starts from.
BeforeRewrite ==
  [ graph |-> RemoveAll(W, deletions).graph, mapping |-> EmptyMap,
    inputs |-> <<>>, files |-> EmptyMap ]

\* C14. The rewrite does not depend on the order the validated producers
\* are processed in: every order gives the pruned graph and the
\* replacement_mapping that this run returned; and no input node without an
\* outgoing edge is left in the pruned graph.
C14_RewriteOrderIndependent ==
  Returned =>
    /\ \A order \in Orderings(DOMAIN replacements) :
         LET other == RewriteInOrder(BeforeRewrite, order)
         IN  other.graph = Pruned /\ other.mapping = replacement_mapping
    /\ \A n \in Pruned.nodes \ OrigNodes : successors(Pruned, n) # {}

====
